---------------------------- MODULE Spec2Model ----------------------------
(***************************************************************************)
(* A model of the resumable migration engine of mlflow-export-import:     *)
(*   - ExperimentExporter.export_experiment  (experiment/export_experiment.py) *)
(*   - ExperimentImporter.import_experiment  (experiment/import_experiment.py) *)
(*   - AllModelImporter.import_model         (model/import_model.py)      *)
(* `component` says which one is running. A specification exercises one  *)
(* component, or hands the directory one component wrote to the next one. *)
(***************************************************************************)
EXTENDS Integers, Sequences, FiniteSets, TLC

(* ------------------------------ bounds -------------------------------- *)
\* largest number of runs of the source experiment
MaxSrcRuns == 3
\* largest page size (run_max_results) tried
MaxPageSize == 2
\* largest save interval (save_status_interval) tried
MaxInterval == 2
\* largest worker pool (threads) tried
MaxThreads == 2
\* number of times export_experiment is started on the same directory
MaxStarts == 2
\* number of times import_experiment is started on the same directory
MaxImportStarts == 2
\* largest version number of the source registered model
MaxVersion == 3
\* number of times import_model is started on the same directory
MaxModelStarts == 2
\* versions somebody else registers at the destination
MaxExternal == 1
\* largest number of experiments of experiments.json
MaxExperiments == 2
\* largest number of models of models.json
MaxModels == 2
\* largest thread budget (threads) and outer concurrency (nb_threads_all) tried
MaxBudget == 3

VARIABLES
  component,        \* which program the behaviour runs
  \* ---- export_experiment: configuration and source
  n_src,            \* number of runs of the source experiment (run ids 1..n_src, in listing order)
  run_max_results,  \* page size of SearchRunsIterator
  save_status_interval,
  threads,
  \* ---- export_experiment: the output directory
  manifest,         \* experiment.json
  \* ---- export_experiment: the running call
  pc,               \* position of the orchestrating thread
  ok_run_ids, failed_run_ids, j, futures, iterator,
  \* ---- export_experiment: history (not program state)
  starts,           \* calls of export_experiment so far
  start_manifest,   \* experiment.json as read when the current call started
  fetched,          \* runs fetched from the source by the current call
  submitted,        \* runs handed to the executor by the current call
  failed_now,       \* runs whose task did not succeed in the current call
  ever_failed,      \* some task did not succeed, in any call
  prev_completed,   \* the call before the current one returned normally
  \* ---- import_experiment: the input directory and the destination
  import_status,    \* import-experiment.json
  dst_experiment,   \* the destination experiment of that name: "absent" or "present"
  \* ---- import_experiment: the running call
  ipc,              \* position of the call
  previous_import,  \* previous_import["runs"] as read at line 76
  to_do_runs,       \* the runs of to_do_runs the for loop has not reached yet
  run_ids_map, run_info_map,
  experiment_id,    \* what set_experiment returned to the current call (line 89), else None
  \* ---- import_experiment: history (not program state)
  import_starts,    \* calls of import_experiment so far
  import_calls,     \* calls of RunImporter.import_run made by the current call
  create_outcome,   \* how create_experiment ended in the current call
  \* ---- import_model: the input directory, the configuration and the destination
  latest_versions,  \* model.json: registered_model.latest_versions
  conf,             \* import-conf.json
  import_model_json,\* import-model.json
  dst_model,        \* the destination registered model of that name
  \* ---- import_model: the running call
  mpc,              \* position of the call
  previous_versions,
  all,              \* the reconciled versions (line 267-270)
  versions,         \* the sorted to-do versions the for loop has not reached yet
  \* ---- import_model: history (not program state)
  model_starts,     \* calls of import_model so far
  create_log,       \* version numbers create_model_version was called for, current call
  deleted_model,    \* the current call deleted the destination model
  caller_delete_model, \* the delete_model argument the caller passed to import_model (line 250)
  transition_log,   \* the versions transition_model_version_stage was called for, in call order
  external_writes,  \* versions registered at the destination by somebody else
  \* ---- import_experiments and _import_models: the input directory and the arguments
  experiments_json, \* experiments.json: the list "experiments"
  models_json,      \* models.json: the list "models"
  bulk_args,        \* the arguments of the call
  \* ---- import_experiments and _import_models: the running call
  bpc,              \* position of the call
  experiments_to_do,
  threads_per_experiment,
  max_workers,
  tasks             \* the tasks handed to the executor, in the order of submission

exportVars == <<n_src, run_max_results, save_status_interval, threads, manifest, pc,
                ok_run_ids, failed_run_ids, j, futures, iterator, starts,
                start_manifest, fetched, submitted, failed_now, ever_failed,
                prev_completed>>

exportConf == <<component, n_src, run_max_results, save_status_interval, threads>>

importVars == <<import_status, dst_experiment, ipc, previous_import, to_do_runs,
                run_ids_map, run_info_map, experiment_id, import_starts, import_calls,
                create_outcome>>

modelVars == <<latest_versions, conf, import_model_json, dst_model, mpc, previous_versions,
               all, versions, model_starts, create_log, deleted_model, caller_delete_model, transition_log, external_writes>>

bulkVars == <<experiments_json, models_json, bulk_args, bpc, experiments_to_do,
              threads_per_experiment, max_workers, tasks>>

outsideExport == <<importVars, modelVars, bulkVars>>

vars == <<component, exportVars, importVars, modelVars, bulkVars>>

(* ----------------------------- helpers -------------------------------- *)
Min(a, b) == IF a < b THEN a ELSE b

\* Python's None
None == -1

AllRuns == 1..n_src

(* --------------------- SearchRunsIterator (paged) --------------------- *)
\* Number of runs on the page that starts after `offset` runs.
PageLen(offset) == IF offset >= n_src THEN 0 ELSE Min(run_max_results, n_src - offset)

\* The token returned with the page starting at `offset`: the position of the
\* page after it, None on the last page.
PageToken(offset) == IF offset + run_max_results < n_src THEN offset + run_max_results ELSE None

\* search_runs(page_token=token): the empty/absent token lists from the beginning.
FetchPage(token) ==
  LET offset == IF token = None THEN 0 ELSE token
  IN [offset |-> offset, len |-> PageLen(offset), token |-> PageToken(offset), idx |-> 0]

PageRuns(it) == (it.offset + 1)..(it.offset + it.len)

IterHasNext(it) == it.idx < it.len \/ (it.token # None /\ PageLen(it.token) > 0)

\* __next__: the iterator after yielding, a new page being fetched when the
\* current one is used up.
IterAdvance(it) ==
  IF it.idx < it.len THEN [it EXCEPT !.idx = it.idx + 1]
  ELSE [FetchPage(it.token) EXCEPT !.idx = 1]

\* the run the iterator yields last
IterItem(it) == it.offset + it.idx

(* --------------------------- experiment.json -------------------------- *)
NoManifest == [shape |-> "absent", runs |-> {}, failed_runs |-> {}, last_page_token |-> None,
               num_total_runs |-> 0, num_ok_runs |-> 0, num_failed_runs |-> 0]

\* a variant that forgets the runs of the previous manifest
_get_previous_ok_runs_forgetful(m) == {}

_get_previous_ok_runs(m) == IF m.shape = "absent" THEN {} ELSE m.runs

_get_previous_failed_runs(m) == IF m.shape = "absent" THEN {} ELSE m.failed_runs

\* a variant that always starts the listing from the beginning
_get_previous_page_token_restart(m) == None

\* set() for a missing file, which starts the listing from the beginning as None does
_get_previous_page_token(m) == IF m.shape = "absent" THEN None ELSE m.last_page_token

\* lines 50-53 and 61-64: a manifest without the top-level key "info", as the
\* one keyed by export_info, is refused with Exception("Unknown manifest format")
UnknownManifestFormat(m) == m.shape = "export_info"

(* ------------------------------ futures ------------------------------- *)
TaskStates == {"queued", "running", "ok", "failed", "raised"}
IsDone(f) == f.st \in {"ok", "failed", "raised"}

\* a variant that does not wait
AllDone_no_wait(fs) == TRUE

\* _get_done_futures(futures) returns normally: no future has raised
AllDone(fs) == \A i \in 1..Len(fs) : IsDone(fs[i])
SomeRaised(fs) == \E i \in 1..Len(fs) : fs[i].st = "raised"
Running(fs) == {i \in 1..Len(fs) : fs[i].st = "running"}

ResultsOk(fs) == {fs[i].run : i \in {k \in 1..Len(fs) : fs[k].st = "ok"}}
ResultsFailed(fs) == {fs[i].run : i \in {k \in 1..Len(fs) : fs[k].st = "failed"}}

\* a variant that records a success only while no later task of the batch has a
\* result yet
MergedOk_last_only(ok, fs) ==
  ok \cup (IF fs # <<>> /\ fs[Len(fs)].st = "ok" THEN {fs[Len(fs)].run} ELSE {})

\* lines 93-98: the sets after merging the results of the batch
MergedOk(ok, fs) == ok \cup ResultsOk(fs)
MergedFailed(failed, fs) == failed \cup ResultsFailed(fs)

\* a variant that writes the index of the last run as the number of runs
WrittenManifest_index(ok, failed, total_run, it) ==
  [shape |-> "mlflow", runs |-> ok, failed_runs |-> failed,
   last_page_token |-> it.token,
   num_total_runs |-> total_run,
   num_ok_runs |-> Cardinality(ok),
   num_failed_runs |-> Cardinality(failed)]

\* lines 102-116: the manifest _save_status writes
WrittenManifest(ok, failed, total_run, it) ==
  [shape |-> "mlflow", runs |-> ok, failed_runs |-> failed,
   last_page_token |-> it.token,
   num_total_runs |-> total_run + 1,
   num_ok_runs |-> Cardinality(ok),
   num_failed_runs |-> Cardinality(failed)]

(* ------------------------- export_experiment -------------------------- *)
Idle == [offset |-> 0, len |-> 0, token |-> None, idx |-> 0]

\* no call of export_experiment is or was running
ExportIdle ==
  /\ pc = "idle"
  /\ ok_run_ids = {} /\ failed_run_ids = {} /\ j = -1 /\ futures = <<>>
  /\ iterator = Idle
  /\ starts = 0
  /\ start_manifest = NoManifest
  /\ fetched = {} /\ submitted = {} /\ failed_now = {}
  /\ ever_failed = FALSE /\ prev_completed = FALSE

\* lines 140-153: a call of export_experiment(exp, output_dir) begins
ExportStart ==
  /\ component = "export"
  /\ pc \in {"idle", "done", "raised"}
  /\ starts < MaxStarts
  /\ starts' = starts + 1
  /\ prev_completed' = (pc = "done")
  /\ start_manifest' = manifest
  /\ futures' = <<>>
  /\ submitted' = {} /\ failed_now' = {}
  /\ IF UnknownManifestFormat(manifest)
     THEN \* line 143: _get_previous_failed_runs raises before anything is loaded
          /\ pc' = "raised"
          /\ failed_run_ids' = {} /\ ok_run_ids' = {} /\ j' = -1
          /\ UNCHANGED <<iterator, fetched>>
     ELSE /\ failed_run_ids' = _get_previous_failed_runs(manifest)
          /\ j' = -1
          /\ ok_run_ids' = _get_previous_ok_runs(manifest)
          /\ iterator' = FetchPage(_get_previous_page_token(manifest))
          /\ fetched' = PageRuns(iterator')
          /\ pc' = "loop"
  /\ UNCHANGED <<exportConf, outsideExport,
                 manifest, ever_failed>>

\* a variant that never starts a drain inside the loop
IntervalReached_never(fs, interval) == FALSE

\* line 164: len(futures) == self.save_status_interval
IntervalReached(fs, interval) == Len(fs) = interval

\* lines 155-166: one iteration of the for loop, up to the test of the interval
ExportLoop ==
  /\ component = "export"
  /\ pc = "loop"
  /\ IterHasNext(iterator)
  /\ LET it == IterAdvance(iterator)
         run_id == IterItem(it)
         fs == IF run_id \in ok_run_ids THEN futures
               ELSE Append(futures, [run |-> run_id, st |-> "queued"])
     IN /\ iterator' = it
        /\ fetched' = fetched \cup PageRuns(it)
        /\ j' = j + 1
        /\ futures' = fs
        /\ submitted' = IF run_id \in ok_run_ids THEN submitted ELSE submitted \cup {run_id}
        /\ pc' = IF IntervalReached(fs, save_status_interval) THEN "save" ELSE "loop"
  /\ UNCHANGED <<exportConf, outsideExport,
                 manifest, ok_run_ids, failed_run_ids, starts, start_manifest,
                 failed_now, ever_failed, prev_completed>>

\* line 155, StopIteration: the loop ends and the executor is shut down
ExportExhausted ==
  /\ component = "export"
  /\ pc = "loop"
  /\ ~IterHasNext(iterator)
  /\ pc' = "final"
  /\ UNCHANGED <<exportConf, outsideExport,
                 manifest, ok_run_ids, failed_run_ids, j, futures, iterator, starts,
                 start_manifest, fetched, submitted, failed_now, ever_failed,
                 prev_completed>>

\* ThreadPoolExecutor(max_workers=threads): a free worker takes the oldest queued task
TaskStart(i) ==
  /\ component = "export"
  /\ pc \in {"loop", "save", "final", "unwind"}
  /\ i \in 1..Len(futures)
  /\ futures[i].st = "queued"
  /\ \A k \in 1..(i-1) : futures[k].st # "queued"
  /\ Cardinality(Running(futures)) < threads
  /\ futures' = [futures EXCEPT ![i].st = "running"]
  /\ UNCHANGED <<exportConf, outsideExport,
                 manifest, pc, ok_run_ids, failed_run_ids, j, iterator, starts,
                 start_manifest, fetched, submitted, failed_now, ever_failed,
                 prev_completed>>

\* lines 176-180: _export_run returns (True, run_id), (False, run_id) or raises
TaskFinish(i, outcome) ==
  /\ component = "export"
  /\ pc \in {"loop", "save", "final", "unwind"}
  /\ i \in 1..Len(futures)
  /\ futures[i].st = "running"
  /\ futures' = [futures EXCEPT ![i].st = outcome]
  /\ failed_now' = IF outcome = "ok" THEN failed_now ELSE failed_now \cup {futures[i].run}
  /\ ever_failed' = (ever_failed \/ outcome # "ok")
  /\ UNCHANGED <<exportConf, outsideExport,
                 manifest, pc, ok_run_ids, failed_run_ids, j, iterator, starts,
                 start_manifest, fetched, submitted, prev_completed>>

\* lines 79-116 called from line 165: every future has a result, the results are
\* merged and experiment.json is written; then line 166
ExportSaveStatus ==
  /\ component = "export"
  /\ pc = "save"
  /\ AllDone(futures) /\ ~SomeRaised(futures)
  /\ ok_run_ids' = MergedOk(ok_run_ids, futures)
  /\ failed_run_ids' = MergedFailed(failed_run_ids, futures)
  /\ manifest' = WrittenManifest(ok_run_ids', failed_run_ids', j, iterator)
  /\ futures' = <<>>
  /\ pc' = "loop"
  /\ UNCHANGED <<exportConf, outsideExport,
                 j, iterator, starts, start_manifest, fetched, submitted, failed_now,
                 ever_failed, prev_completed>>

\* lines 67-75: future.result() re-raises the exception of a task; only
\* TimeoutError is caught, so the exception leaves _save_status and the loop
ExportSaveRaises ==
  /\ component = "export"
  /\ pc = "save"
  /\ SomeRaised(futures)
  /\ pc' = "unwind"
  /\ UNCHANGED <<exportConf, outsideExport,
                 manifest, ok_run_ids, failed_run_ids, j, futures, iterator, starts,
                 start_manifest, fetched, submitted, failed_now, ever_failed,
                 prev_completed>>

\* line 154, leaving the with block on an exception: the executor waits for the
\* tasks it holds, then the exception leaves export_experiment
ExportUnwind ==
  /\ component = "export"
  /\ pc = "unwind"
  /\ AllDone(futures)
  /\ pc' = "raised"
  /\ UNCHANGED <<exportConf, outsideExport,
                 manifest, ok_run_ids, failed_run_ids, j, futures, iterator, starts,
                 start_manifest, fetched, submitted, failed_now, ever_failed,
                 prev_completed>>

\* line 169, after the with block has waited for every task: the final _save_status
ExportFinalSave ==
  /\ component = "export"
  /\ pc = "final"
  /\ AllDone(futures)
  /\ IF SomeRaised(futures)
     THEN /\ pc' = "raised"
          /\ UNCHANGED <<manifest, ok_run_ids, failed_run_ids, futures>>
     ELSE /\ ok_run_ids' = MergedOk(ok_run_ids, futures)
          /\ failed_run_ids' = MergedFailed(failed_run_ids, futures)
          /\ manifest' = WrittenManifest(ok_run_ids', failed_run_ids', j, iterator)
          /\ futures' = <<>>
          /\ pc' = "log"
  /\ UNCHANGED <<exportConf, outsideExport,
                 j, iterator, starts, start_manifest, fetched, submitted, failed_now,
                 ever_failed, prev_completed>>

\* lines 119-126 and 172-173: the summary divides by total_run = j when a run failed
LogRaises(failed, total_run) == failed # {} /\ total_run = 0

ExportLogResult ==
  /\ component = "export"
  /\ pc = "log"
  /\ pc' = IF LogRaises(failed_run_ids, j) THEN "raised" ELSE "done"
  /\ UNCHANGED <<exportConf, outsideExport,
                 manifest, ok_run_ids, failed_run_ids, j, futures, iterator, starts,
                 start_manifest, fetched, submitted, failed_now, ever_failed,
                 prev_completed>>

\* the process is killed: what is on disk stays, everything else is lost
ExportKill ==
  /\ component = "export"
  /\ pc \in {"loop", "save", "final", "unwind", "log"}
  /\ pc' = "idle"
  /\ futures' = <<>>
  /\ UNCHANGED <<exportConf, outsideExport,
                 manifest, ok_run_ids, failed_run_ids, j, iterator, starts,
                 start_manifest, fetched, submitted, failed_now, ever_failed,
                 prev_completed>>

NextExport ==
  \/ ExportStart
  \/ ExportLoop
  \/ ExportExhausted
  \/ \E i \in 1..MaxInterval : TaskStart(i)
  \/ \E i \in 1..MaxInterval, o \in {"ok", "failed", "raised"} : TaskFinish(i, o)
  \/ ExportSaveStatus
  \/ ExportSaveRaises
  \/ ExportUnwind
  \/ ExportFinalSave
  \/ ExportLogResult
  \/ ExportKill


(* ------------------------- import_experiment -------------------------- *)
\* a dict as a function on its keys
EmptyMap == [r \in {} |-> 0]

\* { **a, **b }
MergeMaps(a, b) ==
  [r \in (DOMAIN a) \cup (DOMAIN b) |-> IF r \in DOMAIN b THEN b[r] ELSE a[r]]

NoImportStatus == [exists |-> FALSE, runs |-> EmptyMap]

\* lines 44-48
read_previous_import(status) == IF status.exists THEN status.runs ELSE EmptyMap

\* a variant that does not subtract the previous import
ToDoRuns_all(run_ids, previous_runs) == run_ids

\* line 102
ToDoRuns(run_ids, previous_runs) == run_ids \ (DOMAIN previous_runs)

\* line 118
MergeRuns(previous_runs, new_runs) == MergeMaps(previous_runs, new_runs)

\* lines 50-53
save_import_status(merge_runs) == [exists |-> TRUE, runs |-> merge_runs]

\* lines 50-53 with 96-98: import-experiment.json holds runs, dst_experiment_id,
\* src_experiement_id and experiment_name; no list of failed runs is written
PersistedFailedRuns(status) == {}

\* no call of import_experiment is or was running
ImportIdle ==
  /\ ipc = "idle"
  /\ previous_import = EmptyMap /\ to_do_runs = {}
  /\ run_ids_map = EmptyMap /\ run_info_map = EmptyMap
  /\ import_starts = 0 /\ import_calls = 0
  /\ experiment_id = None /\ create_outcome = "none"

\* the id of the destination experiment of that name
DstExperimentId == 1

\* a variant that raises every RestException again
set_experiment_strict(dst, create_error) ==
  IF dst = "absent" /\ create_error = "none"
  THEN [outcome |-> "created", raised |-> FALSE, dst |-> "present",
        experiment_id |-> DstExperimentId]
  ELSE [outcome |-> IF create_error = "OTHER" THEN "OTHER" ELSE "RESOURCE_ALREADY_EXISTS",
        raised |-> TRUE, dst |-> dst, experiment_id |-> None]

\* mlflow_utils.py lines 49-70. create_error says how create_experiment ends
\* when it fails for another reason than the name being taken.
set_experiment(dst, create_error) ==
  IF dst = "absent" /\ create_error = "none"
  THEN \* line 65 returns the id of the new experiment
       [outcome |-> "created", raised |-> FALSE, dst |-> "present",
        experiment_id |-> DstExperimentId]
  ELSE IF dst = "present" /\ create_error # "OTHER"
  THEN \* lines 66-70, RESOURCE_ALREADY_EXISTS: the id of the existing experiment
       [outcome |-> "RESOURCE_ALREADY_EXISTS", raised |-> FALSE, dst |-> dst,
        experiment_id |-> DstExperimentId]
  ELSE \* line 68: any other RestException is raised again
       [outcome |-> "OTHER", raised |-> TRUE, dst |-> dst, experiment_id |-> None]

\* lines 71-104: the manifest and the previous import are read, the destination
\* experiment is resolved (mlflow_utils.set_experiment) and the to-do set is
\* computed.
ImportStart(create_error) ==
  /\ component = "import_experiment"
  /\ ipc \in {"idle", "done", "raised"}
  /\ import_starts < MaxImportStarts
  /\ import_starts' = import_starts + 1
  /\ import_calls' = 0
  /\ run_ids_map' = EmptyMap /\ run_info_map' = EmptyMap
  /\ IF manifest.shape = "absent"
     THEN \* io_utils.read_file raises
          /\ ipc' = "raised"
          /\ previous_import' = EmptyMap /\ to_do_runs' = {}
          /\ experiment_id' = None /\ create_outcome' = "none"
          /\ UNCHANGED dst_experiment
     ELSE LET e == set_experiment(dst_experiment, create_error)
          IN /\ previous_import' = read_previous_import(import_status)
             /\ dst_experiment' = e.dst
             /\ experiment_id' = e.experiment_id
             /\ create_outcome' = e.outcome
             /\ to_do_runs' = IF e.raised THEN {}
                              ELSE ToDoRuns(manifest.runs, previous_import')
             /\ ipc' = IF e.raised THEN "raised" ELSE "loop"
  /\ UNCHANGED <<component, bulkVars, exportVars, modelVars, import_status>>

\* lines 107-113: one iteration of the for loop over to_do_runs (a set: any order).
\* import_run returns a destination run ("ok"), returns no run ("none") or raises.
ImportRun(src_run_id, outcome) ==
  /\ component = "import_experiment"
  /\ ipc = "loop"
  /\ src_run_id \in to_do_runs
  /\ to_do_runs' = to_do_runs \ {src_run_id}
  /\ import_calls' = import_calls + 1
  /\ IF outcome = "ok"
     THEN /\ run_ids_map' = MergeMaps(run_ids_map, [r \in {src_run_id} |-> import_starts])
          /\ run_info_map' = MergeMaps(run_info_map, [r \in {src_run_id} |-> import_starts])
          /\ ipc' = "loop"
     ELSE /\ UNCHANGED <<run_ids_map, run_info_map>>
          /\ ipc' = IF outcome = "raised" THEN "raised" ELSE "loop"
  /\ UNCHANGED <<component, bulkVars, exportVars, modelVars, import_status, dst_experiment, previous_import,
                 import_starts, experiment_id, create_outcome>>

\* lines 114-121: the loop is over; the merged map is written and the call returns
ImportFinish ==
  /\ component = "import_experiment"
  /\ ipc = "loop"
  /\ to_do_runs = {}
  /\ import_status' = save_import_status(MergeRuns(previous_import, run_ids_map))
  /\ ipc' = "done"
  /\ UNCHANGED <<component, bulkVars, exportVars, modelVars, dst_experiment, previous_import, to_do_runs,
                 run_ids_map, run_info_map, import_starts, import_calls, experiment_id,
                 create_outcome>>

\* the process is killed during the loop
ImportKill ==
  /\ component = "import_experiment"
  /\ ipc = "loop"
  /\ ipc' = "idle"
  /\ UNCHANGED <<component, bulkVars, exportVars, modelVars, import_status, dst_experiment, previous_import,
                 to_do_runs, run_ids_map, run_info_map, import_starts, import_calls,
                 experiment_id, create_outcome>>

NextImportExperiment ==
  \/ \E e \in {"none", "OTHER"} : ImportStart(e)
  \/ \E r \in 1..MaxSrcRuns, o \in {"ok", "none", "raised"} : ImportRun(r, o)
  \/ ImportFinish
  \/ ImportKill

(* ---------------------------- import_model ---------------------------- *)
\* A version of model.json. run_id stands for the fields that name the source
\* run (run_id, source, user_id, _run_artifact_uri), which are copied together.
\* description is 0 for the source's own text and k for
\* "Copy of version k fixed to not mess with the version ordering".
Version(v, run, stage, exp) ==
  [version |-> v, run_id |-> run, current_stage |-> stage, description |-> 0,
   _experiment_name |-> exp]

Range(s) == {s[i] : i \in 1..Len(s)}
VersionsInt(vs) == {vs[i].version : i \in 1..Len(vs)}
MaxOf(S) == CHOOSE m \in S : \A x \in S : x <= m
MinOf(S) == CHOOSE m \in S : \A x \in S : m <= x
RemoveAt(s, i) == SubSeq(s, 1, i - 1) \o SubSeq(s, i + 1, Len(s))

\* the first entry of the list with that version number
WithVersion(vs, v) == vs[MinOf({i \in 1..Len(vs) : vs[i].version = v})]
HasVersion(vs, v) == \E i \in 1..Len(vs) : vs[i].version = v

\* lines 236-238: a for loop over the list that removes from it. After a
\* removal the loop goes on at the next index of the shortened list.
RECURSIVE RemoveLoop(_, _, _)
RemoveLoop(vs, i, missing_experiments) ==
  IF i > Len(vs) THEN vs
  ELSE IF vs[i]._experiment_name \in missing_experiments
       THEN RemoveLoop(RemoveAt(vs, i), i + 1, missing_experiments)
       ELSE RemoveLoop(vs, i + 1, missing_experiments)

\* lines 232-238; c.keys are the keys of import-conf.json
remove_version(vs, c) ==
  IF "missing_experiments" \notin c.keys THEN vs
  ELSE RemoveLoop(vs, 1, c.missing_experiments)

\* a variant that keeps the stage of the copied version
AddedVersion_keeps_stage(copied, missing) ==
  [copied EXCEPT !.description = copied.version, !.version = missing]

\* lines 193-197 and 203-207: the copy added for a missing version
AddedVersion(copied, missing) ==
  [copied EXCEPT !.description = copied.version,
                 !.version = missing,
                 !.current_stage = "Archived"]

\* lines 189-207: the loop over the missing versions, ascending, from g on
RECURSIVE FixLoop(_, _, _, _)
FixLoop(vs, g, top, results) ==
  IF g > top THEN results
  ELSE IF g \in VersionsInt(vs) THEN FixLoop(vs, g + 1, top, results)
  ELSE IF g = 1
       THEN FixLoop(vs, g + 1, top,
                    Append(results, AddedVersion(WithVersion(vs, MinOf(VersionsInt(vs))), g)))
       ELSE LET previous_version ==
                  IF HasVersion(vs, g - 1) THEN WithVersion(vs, g - 1)
                  ELSE WithVersion(results, g - 1)
            IN FixLoop(vs, g + 1, top, Append(results, AddedVersion(previous_version, g)))

\* lines 181-209, for a list that is not empty (max() of an empty list raises)
fix_missing_version(vs) == FixLoop(vs, 1, MaxOf(VersionsInt(vs)), <<>>)

\* lines 220-230: the loop over the configured run ids; err when an index
\* [0] finds nothing (IndexError)
RECURSIVE FixRunLoop(_, _)
FixRunLoop(vs, ids) ==
  IF ids = <<>> THEN [err |-> FALSE, vs |-> vs]
  ELSE LET id == Head(ids)
           to_fix == {i \in 1..Len(vs) : vs[i].run_id = id}
       IN IF to_fix = {} THEN [err |-> TRUE, vs |-> vs]
          ELSE LET f == MinOf(to_fix)
                   to_copy == {i \in 1..Len(vs) : vs[i].version = vs[f].version - 1}
               IN IF to_copy = {} THEN [err |-> TRUE, vs |-> vs]
                  ELSE LET version_to_copy == vs[MinOf(to_copy)]
                       IN FixRunLoop(
                            [vs EXCEPT ![f].description = version_to_copy.version,
                                       ![f].current_stage = "Archived",
                                       ![f].run_id = version_to_copy.run_id],
                            Tail(ids))

\* lines 211-230; "missing_runs" is in c.keys when conf has a list for this model
fix_missing_run_version(vs, c) ==
  IF "missing_runs" \notin c.keys THEN [err |-> FALSE, vs |-> vs]
  ELSE FixRunLoop(vs, c.missing_runs)

\* a variant that finds nothing to do
ToDo_nothing(all_versions, previous) == <<>>

\* line 271
ToDo(all_versions, previous) ==
  SelectSeq(all_versions, LAMBDA x : x.version \notin previous)

\* a variant that keeps the order of model.json
SortedByVersion_unsorted(vs) == vs

\* lines 272 and 288: sorted(.., key=lambda x: int(x["version"]))
SortedByVersion(vs) == SortSeq(vs, LAMBDA a, b : a.version < b.version)

\* line 305
ToWrite(all_versions) == VersionsInt(all_versions)

\* model_utils.py line 26: model_version.version, where the callers (import_model.py
\* lines 64 and 292) pass an int and a str: an AttributeError
wait_until_version_is_ready_raises(model_version) == model_version # "ModelVersion"

\* lines 288-297: the version at which the stage transitions stop with an
\* exception, 0 when the loop runs to its end
TransitionRaisesAt(all_versions) ==
  LET staged == {v \in VersionsInt(all_versions) :
                   WithVersion(all_versions, v).current_stage # "None"}
  IN IF staged # {} /\ wait_until_version_is_ready_raises("str") THEN MinOf(staged) ELSE 0

NoDstModel == [exists |-> FALSE, last |-> 0, versions |-> {}]

\* model_utils.py lines 7-18 followed by import_model.py lines 95-108: the
\* destination after _import_model; err when a client call raises
\* (delete_registered_model of a model that does not exist, or create_error)
_import_model(dst, delete_model, create_error) ==
  IF delete_model /\ ~dst.exists THEN [err |-> TRUE, dst |-> dst, deleted |-> FALSE]
  ELSE LET d == IF delete_model THEN NoDstModel ELSE dst
       IN IF create_error = "OTHER" THEN [err |-> TRUE, dst |-> d, deleted |-> delete_model]
          ELSE IF d.exists
               THEN \* RESOURCE_ALREADY_EXISTS: the tags are updated
                    [err |-> FALSE, dst |-> d, deleted |-> delete_model]
               ELSE [err |-> FALSE, dst |-> [exists |-> TRUE, last |-> 0, versions |-> {}],
                     deleted |-> delete_model]

\* line 265: the delete_model argument of the caller is not used
DeleteModelArgument(previous) == previous = {}

\* no call of import_model is or was running
ModelIdle ==
  /\ mpc = "idle"
  /\ previous_versions = {} /\ all = <<>> /\ versions = <<>>
  /\ model_starts = 0 /\ create_log = <<>> /\ deleted_model = FALSE
  /\ caller_delete_model = FALSE
  /\ transition_log = <<>>

\* no registered model is imported
NoModel ==
  /\ latest_versions = <<>>
  /\ conf = [keys |-> {}, missing_experiments |-> {}, missing_runs |-> <<>>]
  /\ import_model_json = [exists |-> FALSE, versions |-> {}]
  /\ dst_model = NoDstModel
  /\ external_writes = 0
  /\ ModelIdle

\* lines 259-274: the previous import is read, the destination model is deleted
\* and created, and the versions are reconciled
ImportModelStart(create_error, delete_model) ==
  /\ component = "import_model"
  /\ mpc \in {"idle", "done", "raised"}
  /\ model_starts < MaxModelStarts
  /\ model_starts' = model_starts + 1
  /\ create_log' = <<>>
  /\ caller_delete_model' = delete_model
  /\ transition_log' = <<>>
  /\ previous_versions' = IF import_model_json.exists THEN import_model_json.versions ELSE {}
  /\ LET m == _import_model(dst_model, DeleteModelArgument(previous_versions'), create_error)
         removed == remove_version(latest_versions, conf)
         filled == removed \o fix_missing_version(removed)
         fixed == fix_missing_run_version(filled, conf)
     IN /\ dst_model' = m.dst
        /\ deleted_model' = m.deleted
        /\ IF m.err
           THEN mpc' = "raised" /\ all' = <<>> /\ versions' = <<>>
           ELSE IF removed = <<>>
           THEN \* line 185: max() of an empty list raises ValueError
                mpc' = "raised" /\ all' = removed /\ versions' = <<>>
           ELSE IF fixed.err
           THEN mpc' = "raised" /\ all' = fixed.vs /\ versions' = <<>>
           ELSE /\ all' = fixed.vs
                /\ versions' = SortedByVersion(ToDo(fixed.vs, previous_versions'))
                /\ mpc' = "create"
  /\ UNCHANGED <<component, bulkVars, exportVars, importVars, latest_versions, conf,
                 import_model_json, external_writes>>

\* a variant that accepts any number the destination assigns
VersionMismatch_ignored(created, expected) == FALSE

\* line 282: created_version.version != vr["version"]
VersionMismatch(created, expected) == created # expected

\* the destination registers a version: create_model_version gives it the next number
Registered(dst) ==
  [dst EXCEPT !.last = dst.last + 1, !.versions = dst.versions \cup {dst.last + 1}]

\* a variant that calls create_model_version again after every failure of the retry
CreateCalls_retrying(outcome) == IF outcome = "no_source" THEN 0 ELSE 3

\* lines 52-66: the number of create_model_version calls _import_version makes.
\* After 'Max retries' the wait of line 64 comes before the second call of line
\* 65; it is handed int(src_vr["version"]) - 1 and raises.
CreateCalls(outcome) ==
  IF outcome = "no_source" THEN 0
  ELSE IF outcome = "max_retries" /\ ~wait_until_version_is_ready_raises("int") THEN 2
  ELSE 1

\* lines 276-284 with lines 316-321 and 43-67: one iteration of the for loop.
\* outcome: "created" (create_model_version returns), "no_source" (the check of
\* line 52 raises), "max_retries" (MlflowException 'Max retries'; the wait of
\* line 64 raises), "other" (another MlflowException; line 67 finds no version);
\* applied: whether a failed create_model_version registered the version.
ImportModelVersion(outcome, applied) ==
  /\ component = "import_model"
  /\ mpc = "create"
  /\ versions # <<>>
  /\ LET vr == Head(versions)
     IN IF vr.run_id \notin DOMAIN import_status.runs \/ outcome = "no_source"
        THEN \* line 279 raises KeyError, or line 54 raises
             /\ mpc' = "raised"
             /\ UNCHANGED <<dst_model, create_log, versions>>
        ELSE /\ create_log' = create_log \o [i \in 1..CreateCalls(outcome) |-> vr.version]
             /\ IF outcome = "created"
                THEN /\ dst_model' = Registered(dst_model)
                     /\ IF VersionMismatch(dst_model'.last, vr.version)
                        THEN mpc' = "raised" /\ UNCHANGED versions
                        ELSE mpc' = "create" /\ versions' = Tail(versions)
                ELSE /\ dst_model' = IF applied THEN Registered(dst_model) ELSE dst_model
                     /\ mpc' = "raised"
                     /\ UNCHANGED versions
  /\ UNCHANGED <<component, bulkVars, exportVars, importVars, latest_versions, conf,
                 import_model_json, previous_versions, all, model_starts, deleted_model, caller_delete_model, transition_log,
                 external_writes>>

\* line 289: the versions that have a stage
Staged(all_versions) ==
  {v \in VersionsInt(all_versions) : WithVersion(all_versions, v).current_stage # "None"}

\* the numbers of a set in ascending order
RECURSIVE AscendingSeq(_)
AscendingSeq(S) == IF S = {} THEN <<>> ELSE <<MinOf(S)>> \o AscendingSeq(S \ {MinOf(S)})

\* lines 288-294: the versions transition_model_version_stage is called for, in
\* call order: the staged versions in ascending order, up to the one at which
\* the wait or the transition raises
TransitionsCalled(all_versions, transition_error) ==
  LET r == TransitionRaisesAt(all_versions)
  IN IF r # 0 THEN AscendingSeq({v \in Staged(all_versions) : v < r})
     ELSE IF Staged(all_versions) # {} /\ transition_error = "other"
     THEN <<MinOf(Staged(all_versions))>>
     ELSE AscendingSeq(Staged(all_versions))

\* lines 286-297: the stage transitions, after the for loop of line 276.
\* transition_error: how transition_model_version_stage fails when it is called,
\* "current_stage" for 'Cannot update model version to its current stage'
\* (lines 295-297: passed over), "other" for any other exception (raised again)
ImportModelTransitions(transition_error) ==
  /\ component = "import_model"
  /\ mpc = "create"
  /\ versions = <<>>
  /\ mpc' = IF TransitionRaisesAt(all) # 0 THEN "raised"
            ELSE IF Staged(all) # {} /\ transition_error = "other" THEN "raised"
            ELSE "write"
  /\ transition_log' = TransitionsCalled(all, transition_error)
  /\ UNCHANGED <<component, bulkVars, exportVars, importVars, latest_versions, conf,
                 import_model_json, dst_model, previous_versions, all, versions,
                 model_starts, create_log, deleted_model, caller_delete_model, external_writes>>

\* lines 304-307: import-model.json is written
ImportModelWrite ==
  /\ component = "import_model"
  /\ mpc = "write"
  /\ import_model_json' = [exists |-> TRUE, versions |-> ToWrite(all)]
  /\ mpc' = "done"
  /\ UNCHANGED <<component, bulkVars, exportVars, importVars, latest_versions, conf, dst_model,
                 previous_versions, all, versions, model_starts, create_log,
                 deleted_model, caller_delete_model, transition_log, external_writes>>

\* the process is killed
ImportModelKill ==
  /\ component = "import_model"
  /\ mpc \in {"create", "write"}
  /\ mpc' = "idle"
  /\ UNCHANGED <<component, bulkVars, exportVars, importVars, latest_versions, conf,
                 import_model_json, dst_model, previous_versions, all, versions,
                 model_starts, create_log, deleted_model, caller_delete_model, transition_log, external_writes>>

IsAscending(vs) == \A i \in 1..(Len(vs) - 1) : vs[i].version < vs[i + 1].version
IsDescending(vs) == \A i \in 1..(Len(vs) - 1) : vs[i].version > vs[i + 1].version

\* between two imports the source registers a version and the model is exported again
ReExport ==
  /\ component = "import_model"
  /\ mpc \in {"done", "raised"}
  /\ latest_versions # <<>>
  /\ MaxOf(VersionsInt(latest_versions)) < MaxVersion
  /\ LET v == MaxOf(VersionsInt(latest_versions)) + 1
         new == Version(v, v, "None", "kept")
     IN \/ IsAscending(latest_versions) /\ latest_versions' = Append(latest_versions, new)
        \/ IsDescending(latest_versions) /\ latest_versions' = <<new>> \o latest_versions
  /\ UNCHANGED <<component, bulkVars, exportVars, importVars, conf, import_model_json, dst_model,
                 mpc, previous_versions, all, versions, model_starts, create_log,
                 deleted_model, caller_delete_model, transition_log, external_writes>>

\* somebody else registers a version of the destination model
ExternalCreate ==
  /\ component = "import_model"
  /\ dst_model.exists
  /\ external_writes < MaxExternal
  /\ external_writes' = external_writes + 1
  /\ dst_model' = Registered(dst_model)
  /\ UNCHANGED <<component, bulkVars, exportVars, importVars, latest_versions, conf,
                 import_model_json, mpc, previous_versions, all, versions, model_starts,
                 create_log, deleted_model, caller_delete_model, transition_log>>

\* the calls of import_model on a directory and a registry nobody else writes
NextImportModelCalls ==
  \/ \E e \in {"none", "OTHER"}, d \in BOOLEAN : ImportModelStart(e, d)
  \/ \E o \in {"created", "no_source", "max_retries", "other"}, a \in BOOLEAN :
       ImportModelVersion(o, a)
  \/ \E e \in {"none", "current_stage", "other"} : ImportModelTransitions(e)
  \/ ImportModelWrite
  \/ ImportModelKill

NextImportModel ==
  \/ NextImportModelCalls
  \/ ReExport
  \/ ExternalCreate

(* ------------------ import_experiments, _import_models ----------------- *)
\* A comma separated argument is held as the pieces str.split(",") cuts it
\* into: "all" is <<"all">>, "" is <<"">>, "1,2" is <<"1", "2">>. A name is
\* held as the sequence of its characters.

\* f in name, for strings
IsSubstring(f, name) ==
  \E i \in 0..(Len(name) - Len(f)) : SubSeq(name, i + 1, i + Len(f)) = f

\* import_experiments.py lines 28-31
IncludeFilter(exps, experiments) ==
  IF experiments # <<"all">>
  THEN SelectSeq(exps, LAMBDA e : e.id \in Range(experiments))
  ELSE exps

\* a variant that never excludes
ExcludeFilter_off(exps, exclude_experiments) == exps

\* import_experiments.py lines 33-36
ExcludeFilter(exps, exclude_experiments) ==
  IF exclude_experiments # <<"">>
  THEN SelectSeq(exps, LAMBDA e : e.id \notin Range(exclude_experiments))
  ELSE exps

\* import_experiments.py lines 38-40
UserFilter(exps, filter_user) ==
  IF filter_user # <<>>
  THEN SelectSeq(exps, LAMBDA e : IsSubstring(filter_user, e.name))
  ELSE exps

\* import_experiments.py lines 26-40
ExperimentsToDo(exps, args) ==
  UserFilter(ExcludeFilter(IncludeFilter(exps, args.experiments),
                           args.exclude_experiments),
             args.filter_user)

\* import_experiments.py line 52: threads / nb_threads_all is a float, held
\* here as whole + rest / nb_threads_all
ThreadsPerExperiment(budget, nb_threads_all) ==
  [whole |-> budget \div nb_threads_all, rest |-> budget % nb_threads_all]

\* import_experiment.py line 25: the keyword parameters of ExperimentImporter.__init__
InitKeywords == {"import_source_tags", "mlmodel_fix", "use_src_user_id", "conf"}

\* import_experiments.py line 53: the keyword arguments of the call
PassedKeywords == {"use_src_user_id", "conf", "save_status_interval", "threads"}

\* a call with a keyword the function does not have raises TypeError
ConstructorRaises(passed, accepted) == ~(passed \subseteq accepted)

\* a variant in which the exception of a parent's import is raised again
ExceptionLeavesTask_reraised(st) == st = "raised"

\* import_experiments.py lines 16-21 and import_models.py line 75: whether the
\* exception of a parent's import reaches the bulk call. _import_experiment
\* catches it; the future of import_model is dropped without asking its result.
ExceptionLeavesTask(st) == FALSE

NoBulkArgs ==
  [experiments |-> <<"all">>, exclude_experiments |-> <<"">>, filter_user |-> <<>>,
   nb_threads_all |-> 1, threads |-> 1, use_threads |-> FALSE, cpu_count |-> 1]

\* no call of a bulk importer is or was running
BulkIdle ==
  /\ bpc = "idle"
  /\ experiments_to_do = <<>>
  /\ threads_per_experiment = [whole |-> 0, rest |-> 0]
  /\ max_workers = 0
  /\ tasks = <<>>

\* no directory of experiments or models is imported
NoBulk ==
  /\ experiments_json = <<>> /\ models_json = <<>>
  /\ bulk_args = NoBulkArgs
  /\ BulkIdle

\* import_experiments.py lines 25-53: the list is read and filtered, the thread
\* budget is divided and the importer is constructed
ImportExperimentsStart ==
  /\ component = "import_experiments"
  /\ bpc = "idle"
  /\ experiments_to_do' = ExperimentsToDo(experiments_json, bulk_args)
  /\ max_workers' = bulk_args.nb_threads_all
  /\ threads_per_experiment' =
       ThreadsPerExperiment(bulk_args.threads, bulk_args.nb_threads_all)
  /\ bpc' = IF ConstructorRaises(PassedKeywords, InitKeywords) THEN "raised" ELSE "submit"
  /\ UNCHANGED <<component, exportVars, importVars, modelVars, experiments_json,
                 models_json, bulk_args, tasks>>

\* import_models.py lines 59-70
ImportModelsStart ==
  /\ component = "import_models"
  /\ bpc = "idle"
  /\ max_workers' = IF bulk_args.use_threads THEN bulk_args.cpu_count ELSE 1
  /\ bpc' = "submit"
  /\ UNCHANGED <<component, exportVars, importVars, modelVars, experiments_json,
                 models_json, bulk_args, experiments_to_do, threads_per_experiment,
                 tasks>>

\* the parents the for loop of the bulk call goes over
Parents ==
  IF component = "import_experiments"
  THEN [i \in 1..Len(experiments_to_do) |-> experiments_to_do[i].id]
  ELSE models_json

\* import_experiments.py lines 55-58, import_models.py lines 73-75: one iteration
BulkSubmit ==
  /\ component \in {"import_experiments", "import_models"}
  /\ bpc = "submit"
  /\ Len(tasks) < Len(Parents)
  /\ tasks' = Append(tasks, [id |-> Parents[Len(tasks) + 1], st |-> "queued"])
  /\ UNCHANGED <<component, exportVars, importVars, modelVars, experiments_json,
                 models_json, bulk_args, bpc, experiments_to_do,
                 threads_per_experiment, max_workers>>

\* the for loop is over: the with block waits for the tasks
BulkSubmitted ==
  /\ component \in {"import_experiments", "import_models"}
  /\ bpc = "submit"
  /\ Len(tasks) = Len(Parents)
  /\ bpc' = "wait"
  /\ UNCHANGED <<component, exportVars, importVars, modelVars, experiments_json,
                 models_json, bulk_args, experiments_to_do, threads_per_experiment,
                 max_workers, tasks>>

\* ThreadPoolExecutor(max_workers): a free worker takes the oldest queued task
BulkTaskStart(i) ==
  /\ component \in {"import_experiments", "import_models"}
  /\ bpc \in {"submit", "wait"}
  /\ i \in 1..Len(tasks)
  /\ tasks[i].st = "queued"
  /\ \A k \in 1..(i - 1) : tasks[k].st # "queued"
  /\ Cardinality({k \in 1..Len(tasks) : tasks[k].st = "running"}) < max_workers
  /\ tasks' = [tasks EXCEPT ![i].st = "running"]
  /\ UNCHANGED <<component, exportVars, importVars, modelVars, experiments_json,
                 models_json, bulk_args, bpc, experiments_to_do,
                 threads_per_experiment, max_workers>>

\* the import of a parent returns ("done") or raises ("raised")
BulkTaskFinish(i, outcome) ==
  /\ component \in {"import_experiments", "import_models"}
  /\ bpc \in {"submit", "wait"}
  /\ i \in 1..Len(tasks)
  /\ tasks[i].st = "running"
  /\ tasks' = [tasks EXCEPT ![i].st = outcome]
  /\ UNCHANGED <<component, exportVars, importVars, modelVars, experiments_json,
                 models_json, bulk_args, bpc, experiments_to_do,
                 threads_per_experiment, max_workers>>

\* the with block is left when every task has ended; the bulk call returns
BulkReturn ==
  /\ component \in {"import_experiments", "import_models"}
  /\ bpc = "wait"
  /\ \A i \in 1..Len(tasks) : tasks[i].st \in {"done", "raised"}
  /\ bpc' = IF \E i \in 1..Len(tasks) : ExceptionLeavesTask(tasks[i].st)
            THEN "raised" ELSE "returned"
  /\ UNCHANGED <<component, exportVars, importVars, modelVars, experiments_json,
                 models_json, bulk_args, experiments_to_do, threads_per_experiment,
                 max_workers, tasks>>

NextBulk ==
  \/ ImportExperimentsStart
  \/ ImportModelsStart
  \/ BulkSubmit
  \/ BulkSubmitted
  \/ \E i \in 1..MaxModels : BulkTaskStart(i)
  \/ \E i \in 1..MaxModels, o \in {"done", "raised"} : BulkTaskFinish(i, o)
  \/ BulkReturn

(* -------------------------- specifications --------------------------- *)
InitExport ==
  /\ component = "export"
  /\ n_src \in 0..MaxSrcRuns
  /\ run_max_results \in 1..MaxPageSize
  /\ save_status_interval \in 1..MaxInterval
  /\ threads \in 1..MaxThreads
  /\ manifest = NoManifest
  /\ ExportIdle
  /\ import_status = NoImportStatus /\ dst_experiment = "absent"
  /\ ImportIdle
  /\ NoModel
  /\ NoBulk

SpecExport == InitExport /\ [][NextExport]_vars

\* experiment.json as an earlier release wrote it: the completed runs under the
\* top-level key export_info, and no top-level key info
LegacyManifests ==
  {[shape |-> "export_info", runs |-> ok, failed_runs |-> {},
    last_page_token |-> None, num_total_runs |-> Cardinality(ok),
    num_ok_runs |-> Cardinality(ok), num_failed_runs |-> 0] : ok \in SUBSET AllRuns}

\* export_experiment is started on an output directory that is empty or holds a
\* manifest of the earlier release; the manifests of this release are the ones
\* its own calls leave behind
InitExportResume ==
  /\ component = "export"
  /\ n_src \in 0..MaxSrcRuns
  /\ run_max_results \in 1..MaxPageSize
  /\ save_status_interval \in 1..MaxInterval
  /\ threads \in 1..MaxThreads
  /\ manifest \in {NoManifest} \cup LegacyManifests
  /\ ExportIdle
  /\ import_status = NoImportStatus /\ dst_experiment = "absent"
  /\ ImportIdle
  /\ NoModel
  /\ NoBulk

SpecExportResume == InitExportResume /\ [][NextExport]_vars

\* The input directory holds an experiment.json written by export_experiment
\* (import_experiment reads its runs; of failed_runs it only prints the number).
ExportedManifests ==
  UNION {{[shape |-> "mlflow", runs |-> ok, failed_runs |-> failed,
           last_page_token |-> None, num_total_runs |-> n_src,
           num_ok_runs |-> Cardinality(ok), num_failed_runs |-> Cardinality(failed)] :
            failed \in {{}, AllRuns \ ok}} : ok \in SUBSET AllRuns}

InitImportExperiment ==
  /\ component = "import_experiment"
  /\ n_src \in 0..MaxSrcRuns
  /\ run_max_results = 1 /\ save_status_interval = 1 /\ threads = 1
  /\ manifest \in ExportedManifests
  /\ ExportIdle
  /\ import_status = NoImportStatus
  /\ dst_experiment \in {"absent", "present"}
  /\ ImportIdle
  /\ NoModel
  /\ NoBulk

SpecImportExperiment == InitImportExperiment /\ [][NextImportExperiment]_vars


\* model.json lists versions with distinct numbers, ascending or descending.
\* Version v comes from run v; at most one version has a stage.
VersionLists ==
  UNION {
    UNION {
      {[i \in 1..Cardinality(vset) |->
          LET asc == SortSeq([k \in 1..Cardinality(vset) |->
                                CHOOSE x \in vset : Cardinality({y \in vset : y < x}) = k - 1],
                             LAMBDA a, b : a < b)
              v == IF up THEN asc[i] ELSE asc[Cardinality(vset) + 1 - i]
          IN Version(v, v, IF v = staged THEN "Production" ELSE "None",
                     IF v \in gone THEN "gone" ELSE "kept")] :
         staged \in {0} \cup vset, gone \in SUBSET vset, up \in BOOLEAN}
      : vset \in SUBSET (1..MaxVersion)}}

\* the run ids import-conf.json names as missing for this model
MissingRunLists ==
  {<<r>> : r \in 1..MaxVersion} \cup {<<r, r - 1>> : r \in 2..MaxVersion}

\* import-conf.json
Confs ==
  {[keys |-> {}, missing_experiments |-> {}, missing_runs |-> <<>>],
   [keys |-> {"missing_experiments"}, missing_experiments |-> {"gone"}, missing_runs |-> <<>>]}
  \cup {[keys |-> {"missing_runs"}, missing_experiments |-> {}, missing_runs |-> ids] :
          ids \in MissingRunLists}

\* the runs import-experiment.json maps: all the runs of the versions, or all but run 1
RunInfoMaps ==
  {[r \in (1..MaxVersion) \ lacking |-> 1] : lacking \in {{}, {1}}}

InitModelInputs ==
  /\ latest_versions \in VersionLists
  /\ conf \in Confs
  /\ "missing_experiments" \notin conf.keys =>
       \A i \in 1..Len(latest_versions) : latest_versions[i]._experiment_name = "kept"
  /\ import_model_json = [exists |-> FALSE, versions |-> {}]
  /\ dst_model \in {NoDstModel, [exists |-> TRUE, last |-> 0, versions |-> {}]}
  /\ external_writes = 0
  /\ ModelIdle

InitImportModel ==
  /\ component = "import_model"
  /\ n_src = MaxVersion
  /\ run_max_results = 1 /\ save_status_interval = 1 /\ threads = 1
  /\ manifest = NoManifest
  /\ ExportIdle
  /\ import_status \in {[exists |-> TRUE, runs |-> m] : m \in RunInfoMaps}
  /\ dst_experiment = "present"
  /\ ImportIdle
  /\ InitModelInputs
  /\ NoBulk

SpecImportModel == InitImportModel /\ [][NextImportModel]_vars

\* the ids and the names experiments.json can hold
ExperimentIds == {ToString(i) : i \in 1..MaxExperiments}
ExperimentNames == {<<"a">>, <<"b">>, <<"a", "b">>}

\* the sequence of the numbers of S, ascending
RECURSIVE Ordered(_)
Ordered(S) ==
  IF S = {} THEN <<>>
  ELSE LET m == CHOOSE x \in S : \A y \in S : x <= y IN <<m>> \o Ordered(S \ {m})

Reversed(s) == [i \in 1..Len(s) |-> s[Len(s) + 1 - i]]

\* experiments.json: experiments with distinct ids, ascending or descending
ExperimentLists ==
  UNION {{[i \in 1..Len(o) |-> [id |-> ToString(o[i]), name |-> nm[i]]] :
            o \in {Ordered(S), Reversed(Ordered(S))},
            nm \in [1..Cardinality(S) -> ExperimentNames]} :
         S \in SUBSET (1..MaxExperiments)}

\* the arguments of import_experiments
ExperimentsArgs ==
  {[NoBulkArgs EXCEPT !.experiments = inc, !.exclude_experiments = exc,
                      !.filter_user = usr, !.nb_threads_all = nb, !.threads = th] :
     inc \in {<<"all">>, <<"">>, <<"1", "2">>} \cup {<<e>> : e \in ExperimentIds},
     exc \in {<<"">>} \cup {<<e>> : e \in ExperimentIds},
     usr \in {<<>>, <<"a">>, <<"a", "b">>},
     nb \in 1..MaxBudget, th \in 1..MaxBudget}

InitImportExperiments ==
  /\ component = "import_experiments"
  /\ n_src = 0
  /\ run_max_results = 1 /\ save_status_interval = 1 /\ threads = 1
  /\ manifest = NoManifest
  /\ ExportIdle
  /\ import_status = NoImportStatus /\ dst_experiment = "absent"
  /\ ImportIdle
  /\ NoModel
  /\ experiments_json \in ExperimentLists
  /\ models_json = <<>>
  /\ bulk_args \in ExperimentsArgs
  /\ BulkIdle

\* the arguments of _import_models and the number of processors
ModelsArgs ==
  {[NoBulkArgs EXCEPT !.use_threads = ut, !.cpu_count = cpu] :
     ut \in BOOLEAN, cpu \in 1..MaxBudget}

InitImportModels ==
  /\ component = "import_models"
  /\ n_src = 0
  /\ run_max_results = 1 /\ save_status_interval = 1 /\ threads = 1
  /\ manifest = NoManifest
  /\ ExportIdle
  /\ import_status = NoImportStatus /\ dst_experiment = "absent"
  /\ ImportIdle
  /\ NoModel
  /\ experiments_json = <<>>
  /\ models_json \in {[i \in 1..n |-> i] : n \in 0..MaxModels}
  /\ bulk_args \in ModelsArgs
  /\ BulkIdle

\* a bulk import of experiments, or a bulk import of models
SpecBulk == (InitImportExperiments \/ InitImportModels) /\ [][NextBulk]_vars

\* The directory export_experiment wrote is handed to import_experiment. The
\* exporter's configuration and the state of its last call play no part from
\* here on; of its history, the manifest its last call started from is kept.
HandOverToImport ==
  /\ component = "export"
  /\ pc = "done"
  /\ manifest.shape # "absent"
  /\ component' = "import_experiment"
  /\ run_max_results' = 1 /\ save_status_interval' = 1 /\ threads' = 1
  /\ pc' = "idle"
  /\ ok_run_ids' = {} /\ failed_run_ids' = {} /\ j' = -1 /\ futures' = <<>>
  /\ iterator' = Idle
  /\ starts' = 0
  /\ fetched' = {} /\ submitted' = {} /\ failed_now' = {}
  /\ ever_failed' = FALSE /\ prev_completed' = FALSE
  /\ dst_experiment' \in {"absent", "present"}
  /\ UNCHANGED <<n_src, manifest, start_manifest, import_status, ipc, previous_import,
                 to_do_runs, run_ids_map, run_info_map, import_starts, import_calls,
                 experiment_id, create_outcome, modelVars, bulkVars>>

Init == InitExport
Next == NextExport \/ HandOverToImport \/ NextImportExperiment
Spec == Init /\ [][Next]_vars

\* import_models.py lines 59-78 and 80-92: after the experiments are imported, a
\* model is imported with the runs of import-experiment.json as run_info_map.
\* The experiment was exported with all its runs. The model's directory holds a model.json with ascending versions that have no stage,
\* and no import-conf.json names it. The map import_experiment returned is dropped.
HandOverToModels ==
  /\ component = "import_experiment"
  /\ ipc = "done"
  /\ manifest.runs = AllRuns
  /\ component' = "import_model"
  /\ run_ids_map' = EmptyMap /\ run_info_map' = EmptyMap
  /\ latest_versions' \in
       {l \in VersionLists :
          /\ IsAscending(l)
          /\ \A i \in 1..Len(l) : l[i]._experiment_name = "kept" /\ l[i].current_stage = "None"}
  /\ dst_model' \in {NoDstModel, [exists |-> TRUE, last |-> 0, versions |-> {}]}
  /\ UNCHANGED <<exportVars, bulkVars,
                 import_status, dst_experiment, ipc, previous_import, to_do_runs,
                 import_starts, import_calls, experiment_id, create_outcome,
                 conf, import_model_json, mpc, previous_versions, all, versions,
                 model_starts, create_log, deleted_model, caller_delete_model, transition_log, external_writes>>

NextImport == NextImportExperiment \/ HandOverToModels \/ NextImportModelCalls
SpecImport == InitImportExperiment /\ [][NextImport]_vars

(* ===================== claims: export_experiment ====================== *)

\* C1 (as claimed): when a call of export_experiment returns normally and every
\* export task of every call on this directory succeeded - the call may be the
\* resumption of a call that was killed after a manifest write - the runs of the
\* final manifest are all the runs of the source.
C1_Resumability ==
  (component = "export" /\ pc = "done" /\ ~ever_failed) => manifest.runs = AllRuns

\* C3 (as claimed): after a complete first call that left ok = S \ F and
\* failed = F # {}, a second call in which every task succeeds submits exactly
\* the runs of F and ends with ok = S and failed = {} in the manifest.
C3_ResumeAfterFailure ==
  (/\ component = "export" /\ pc = "done" /\ starts = 2 /\ prev_completed
   /\ start_manifest.failed_runs # {}
   /\ start_manifest.runs \cup start_manifest.failed_runs = AllRuns
   /\ failed_now = {})
  => (/\ submitted = start_manifest.failed_runs
      /\ manifest.runs = AllRuns
      /\ manifest.failed_runs = {})

\* C4 (as claimed): no run is both in the completed list and in the failed list
\* of experiment.json.
C4_Disjoint == manifest.runs \cap manifest.failed_runs = {}

\* C6 (as claimed): a task that fails, by its result or by an exception, does
\* not abort export_experiment, and while the process lives a run whose task
\* did not succeed is in the failed list of the manifest once its batch has
\* been merged.
C6_FailureIsolation ==
  (component = "export" /\ pc # "idle") =>
    /\ ~(pc \in {"unwind", "raised"} /\ SomeRaised(futures))
    /\ failed_now \subseteq
         (manifest.failed_runs \cup {futures[i].run : i \in 1..Len(futures)})

\* C7 (as claimed): in experiment.json the numbers of completed and of failed
\* runs add up to the recorded number of attempted runs.
C7_CountConsistency ==
  manifest.shape # "absent" =>
    manifest.num_ok_runs + manifest.num_failed_runs = manifest.num_total_runs

\* C8: a call that resumes from a manifest holding the cursor c fetches and
\* submits no run of the pages lying before c.
C8_PaginationResumption ==
  (component = "export" /\ starts >= 1 /\ start_manifest.last_page_token # None)
  => (/\ fetched \cap (1..start_manifest.last_page_token) = {}
      /\ submitted \cap (1..start_manifest.last_page_token) = {})

\* page size 2, cursor after runs 1 and 2: the resumed call has fetched 3 and 4 only
C8_Witness ==
  /\ component = "export" /\ pc = "done" /\ starts = 2
  /\ run_max_results = 2 /\ n_src = 3
  /\ start_manifest.last_page_token = 2
  /\ fetched = {3} /\ submitted = {3}

(* ========================= claims: the imports ======================== *)

C5_MonotoneProgress ==
  /\ start_manifest.runs \subseteq manifest.runs
  /\ \A r \in DOMAIN previous_import :
       r \in DOMAIN import_status.runs /\ import_status.runs[r] = previous_import[r]
  /\ (component = "import_experiment" /\ ipc = "done") =>
       /\ DOMAIN import_status.runs = (DOMAIN previous_import) \cup (DOMAIN run_ids_map)
       /\ \A r \in DOMAIN run_ids_map : import_status.runs[r] = run_ids_map[r]

\* a resumed export added runs to the manifest, and a second import added
\* records to import-experiment.json
C5_Witness ==
  /\ component = "import_experiment" /\ ipc = "done" /\ import_starts = 2
  /\ start_manifest.runs # {} /\ start_manifest.runs # manifest.runs
  /\ previous_import # EmptyMap /\ run_ids_map # EmptyMap

(* ========================= claims: import_model ======================= *)

\* the entry of a list with distinct versions that has version v
EntryOf(vs, v) == vs[CHOOSE i \in 1..Len(vs) : vs[i].version = v]

\* the versions left by remove_version (removed), extended with the result of
\* fix_missing_version (reconciled), hold each number of 1..max exactly once; an
\* added entry g is archived and says it is a copy; apart from version, stage
\* and description it is the entry before it (the lowest entry of removed when g = 1).
GapsFilled(removed, reconciled) ==
  LET top == MaxOf(VersionsInt(removed))
      lowest == MinOf(VersionsInt(removed))
  IN /\ SubSeq(reconciled, 1, Len(removed)) = removed
     /\ Len(reconciled) = top
     /\ VersionsInt(reconciled) = 1..top
     /\ \A i \in (Len(removed) + 1)..Len(reconciled) :
          LET g == reconciled[i].version
              before == EntryOf(reconciled, IF g = 1 THEN lowest ELSE g - 1)
          IN /\ g \notin VersionsInt(removed)
             /\ reconciled[i].current_stage = "Archived"
             /\ reconciled[i].description = before.version
             /\ reconciled[i].run_id = before.run_id
             /\ reconciled[i]._experiment_name = before._experiment_name

\* C9: when fix_missing_run_version has nothing to do, the reconciled versions
\* of a call are the versions left by remove_version with every gap of 1..max
\* filled by an archived copy of the entry before it.
C9_GapFilling ==
  (/\ component = "import_model"
   /\ mpc \in {"create", "write"}
   /\ "missing_runs" \notin conf.keys)
  => GapsFilled(remove_version(latest_versions, conf), all)

\* model.json holds version 3 only: 1 is a copy of 3 and 2 is a copy of 1
C9_Witness ==
  /\ component = "import_model" /\ mpc = "create"
  /\ conf.keys = {}
  /\ Len(latest_versions) = 1 /\ latest_versions[1].version = 3
  /\ Len(all) = 3
  /\ all[2].version = 1 /\ all[2].description = 3 /\ all[2].current_stage = "Archived"
  /\ all[3].version = 2 /\ all[3].description = 1 /\ all[3].run_id = 3

\* the k smallest numbers of S, ascending
RECURSIVE Ascending(_)
Ascending(S) == IF S = {} THEN <<>> ELSE <<MinOf(S)>> \o Ascending(S \ {MinOf(S)})

\* C10: the versions create_model_version was called for in the current call
\* are, in the order of the calls, the lowest reconciled versions that are not
\* in the previous import-model.json, ascending; they are all of them once the
\* loop is over.
C10_OrderedReplay ==
  (component = "import_model" /\ mpc # "idle") =>
    LET todo == Ascending(VersionsInt(all) \ previous_versions)
    IN /\ Len(create_log) <= Len(todo)
       /\ create_log = SubSeq(todo, 1, Len(create_log))
       /\ mpc \in {"write", "done"} => create_log = todo

\* model.json lists 3, 2, 1 and version 1 was imported before: 2 and 3 are created, in this order
C10_Witness ==
  /\ component = "import_model" /\ mpc = "done" /\ model_starts = 2
  /\ Len(all) = 3 /\ IsDescending(all)
  /\ import_model_json.versions = {1, 2, 3} /\ previous_versions = {1}
  /\ create_log = <<2, 3>>

\* C11: when the destination registers, for a create_model_version call, a
\* number that is not the version asked for, the call of import_model ends with
\* an exception at once; a call that has ended with an exception makes no
\* further create_model_version call, makes no stage transition and leaves
\* import-model.json as it was.
C11_MismatchFatal ==
  [][/\ (/\ mpc = "create"
         /\ Len(create_log') = Len(create_log) + 1
         /\ dst_model'.last # dst_model.last
         /\ dst_model'.last # create_log'[Len(create_log')])
        => (mpc' = "raised" /\ import_model_json' = import_model_json)
     /\ (mpc = "raised" /\ model_starts' = model_starts)
        => (/\ mpc' = "raised"
            /\ create_log' = create_log
            /\ import_model_json' = import_model_json)]_vars

\* somebody else registered version 1; the call asked for version 1, got 2 and
\* stopped with versions 2 and 3 not created and no import-model.json
C11_Witness ==
  /\ component = "import_model" /\ mpc = "raised"
  /\ external_writes = 1
  /\ Len(all) = 3 /\ Len(versions) = 3
  /\ create_log = <<1>> /\ dst_model.last = 2
  /\ ~import_model_json.exists

(* ====================== claims: the bulk importers ==================== *)

\* C12: a bulk call never ends with an exception because the import of a
\* parent raised; when it returns, a task was submitted for every parent to
\* do and every task has run to its end, whatever the other tasks did.
C12_ParentIsolation ==
  component \in {"import_experiments", "import_models"} =>
    /\ ~(bpc = "raised" /\ \E i \in 1..Len(tasks) : tasks[i].st = "raised")
    /\ bpc = "returned" =>
         /\ Len(tasks) = Len(Parents)
         /\ \A i \in 1..Len(tasks) :
              tasks[i].id = Parents[i] /\ tasks[i].st \in {"done", "raised"}

\* the import of the first model raised, the import of the second one ran to
\* its end, and _import_models returned
C12_Witness ==
  /\ component = "import_models" /\ bpc = "returned"
  /\ Len(tasks) = 2
  /\ tasks[1].st = "raised" /\ tasks[2].st = "done"

\* the three conditions on an experiment, each void at its default
Selected(e, args) ==
  /\ (args.experiments = <<"all">> \/ \E k \in 1..Len(args.experiments) :
                                         args.experiments[k] = e.id)
  /\ (args.exclude_experiments = <<"">> \/ \A k \in 1..Len(args.exclude_experiments) :
                                              args.exclude_experiments[k] # e.id)
  /\ (args.filter_user = <<>> \/ IsSubstring(args.filter_user, e.name))

C14_BulkScheduling ==
  component = "import_experiments" =>
    /\ Cardinality({k \in 1..Len(tasks) : tasks[k].st = "running"})
         <= bulk_args.nb_threads_all
    /\ bpc \in {"returned", "raised"} =>
         /\ Len(tasks) = Len(experiments_to_do)
         /\ \A i \in 1..Len(tasks) :
              /\ tasks[i].id = experiments_to_do[i].id
              /\ tasks[i].st \in {"done", "raised"}

\* C15 (as claimed): the number of threads import_experiments computes for
\* each experiment is a whole number, at least 1, and nb_threads_all times
\* this number is at most threads.
C15_ThreadBudget ==
  (component = "import_experiments" /\ bpc # "idle") =>
    /\ threads_per_experiment.rest = 0
    /\ threads_per_experiment.whole >= 1
    /\ bulk_args.nb_threads_all * threads_per_experiment.whole <= bulk_args.threads


\* C16: set_experiment returns the id of the destination experiment named
\* exp_name, creating it when it is absent; when the creation fails with
\* RESOURCE_ALREADY_EXISTS it returns the id of the existing experiment, which
\* stays the only one of that name; any other creation error reaches the caller.
C16_IdempotentParentCreation ==
  [][(/\ component = "import_experiment"
      /\ import_starts' = import_starts + 1
      /\ manifest.shape # "absent")
     => /\ create_outcome' \in {"created", "RESOURCE_ALREADY_EXISTS", "OTHER"}
        /\ create_outcome' = "created"
             => /\ dst_experiment = "absent" /\ dst_experiment' = "present"
                /\ experiment_id' = DstExperimentId /\ ipc' = "loop"
        /\ create_outcome' = "RESOURCE_ALREADY_EXISTS"
             => /\ dst_experiment = "present" /\ dst_experiment' = "present"
                /\ experiment_id' = DstExperimentId /\ ipc' = "loop"
        /\ create_outcome' = "OTHER"
             => /\ dst_experiment' = dst_experiment
                /\ experiment_id' = None /\ ipc' = "raised"
        /\ dst_experiment = "absent" => create_outcome' # "RESOURCE_ALREADY_EXISTS"
        /\ dst_experiment = "present" => create_outcome' # "created"]_vars

\* a second call found the experiment the first call created and used its id
C16_Witness ==
  /\ component = "import_experiment"
  /\ import_starts = 2
  /\ create_outcome = "RESOURCE_ALREADY_EXISTS"
  /\ experiment_id = DstExperimentId
  /\ ipc = "loop"
  /\ import_status.exists


\* C17: import_model deletes an existing destination model and its versions only
\* when the caller passed delete_model = true; with delete_model = false an
\* existing destination model is reused and none of its versions is deleted,
\* whether or not a previous import checkpoint exists.
C17_DeleteOnlyOnRequest ==
  (component = "import_model" /\ mpc # "idle") => (deleted_model => caller_delete_model)


\* C18: export_experiment started on an output directory holding an
\* experiment.json in either manifest shape (top-level key export_info, or
\* top-level key mlflow) loads the previous completed set, failed set and cursor
\* and proceeds without raising.
C18_LegacyManifest ==
  [][(/\ component = "export"
      /\ starts' = starts + 1
      /\ manifest.shape \in {"export_info", "mlflow"})
     => /\ pc' = "loop"
        /\ ok_run_ids' = manifest.runs
        /\ failed_run_ids' = manifest.failed_runs
        /\ iterator' = FetchPage(manifest.last_page_token)]_vars


\* C19: in import_experiment every child of the to-do set whose import does not
\* produce a destination run is recorded in a persisted failed list, so that
\* after the run every attempted child is in the persisted completed map or in
\* the persisted failed list.
C19_ImportFailuresPersisted ==
  (component = "import_experiment" /\ ipc = "done") =>
    ToDoRuns(manifest.runs, previous_import)
      \subseteq (DOMAIN import_status.runs) \cup PersistedFailedRuns(import_status)


\* C20: in import_experiment an exception raised while importing one child does
\* not abort the parent: the remaining to-do children are still attempted, and
\* the records of the children imported in this call are written to
\* import-experiment.json.
C20_ChildExceptionIsolation ==
  (component = "import_experiment" /\ import_calls > 0 /\ ipc \in {"done", "raised"}) =>
    /\ to_do_runs = {}
    /\ (DOMAIN run_ids_map) \subseteq (DOMAIN import_status.runs)


\* C21: export_experiment on an experiment whose listing yields no runs, with no
\* previous manifest, submits no task, writes a manifest with num_total_runs = 0,
\* no runs and no failed runs, and returns (0, 0); import_experiment on a manifest
\* without runs calls import_run never and writes import-experiment.json with an
\* empty runs map.
C21_EmptyParent ==
  /\ (component = "export" /\ n_src = 0 /\ start_manifest.shape = "absent"
        /\ pc # "idle") =>
       /\ submitted = {} /\ futures = <<>>
       /\ pc # "raised"
       /\ pc \in {"log", "done"} =>
            /\ manifest.shape = "mlflow"
            /\ manifest.num_total_runs = 0
            /\ manifest.runs = {} /\ manifest.failed_runs = {}
       /\ pc = "done" => (Cardinality(ok_run_ids) = 0 /\ Cardinality(failed_run_ids) = 0)
  /\ (component = "import_experiment" /\ manifest.shape # "absent"
        /\ manifest.runs = {} /\ ipc # "idle") =>
       /\ import_calls = 0
       /\ ipc = "raised" => create_outcome = "OTHER"
       /\ ipc = "done" => (import_status.exists /\ import_status.runs = EmptyMap)

\* an experiment without runs was exported and then imported
C21_Witness ==
  /\ component = "import_experiment"
  /\ n_src = 0
  /\ manifest.shape = "mlflow" /\ manifest.num_total_runs = 0
  /\ ipc = "done"
  /\ import_status.exists


\* C22: import_model on a registered model with no version to replay
\* (latest_versions empty, or emptied by the exclusion of missing experiments)
\* completes without raising, creates no version at the destination and writes
\* an import-model.json with an empty list. The calls considered are those in
\* which no call of the destination's client fails.
C22_EmptyRegistryParent ==
  [][(/\ \E d \in BOOLEAN : ImportModelStart("none", d)
      /\ ~(DeleteModelArgument(previous_versions') /\ ~dst_model.exists)
      /\ remove_version(latest_versions, conf) = <<>>)
     => mpc' = "create"]_vars


\* C23: the map import_experiment returns has an entry for every child of the
\* completed set at the end of the call, including the children completed by
\* earlier calls and skipped in this one.
C23_CompletedChildMap ==
  (component = "import_experiment" /\ ipc = "done") =>
    (DOMAIN import_status.runs) \subseteq (DOMAIN run_info_map)


\* C24: every call of export_experiment that exhausts its input, whatever the
\* number of enumerated children (exactly one included) and whatever subset of
\* them failed, writes the final manifest, emits the summary and returns the
\* pair (number of ok runs, number of failed runs) without raising.
C24_CompletesWithFailures ==
  [][(component = "export" /\ pc = "log" /\ pc' \notin {"log", "idle"})
     => pc' = "done"]_vars


\* C25: during the stage transitions of import_model a destination error saying
\* that the version is already in the target stage is passed over and the import
\* goes on with the next version; any other transition error ends the import of
\* this model without import-model.json being written.
C25_StageTransitionTolerance ==
  [][/\ ImportModelTransitions("current_stage") => mpc' = "write"
     /\ (ImportModelTransitions("other") /\ Staged(all) # {})
          => (mpc' = "raised" /\ import_model_json' = import_model_json)]_vars


\* C26: in import_model a version whose source run has no entry in the run map
\* is fatal for that version only: it is recorded as failed and the remaining
\* versions of the model are still processed.
C26_MissingChildTolerated ==
  [][(/\ \E o \in {"created", "no_source", "max_retries", "other"}, a \in BOOLEAN :
           ImportModelVersion(o, a)
      /\ Head(versions).run_id \notin DOMAIN import_status.runs)
     => (mpc' = "create" /\ versions' = Tail(versions))]_vars


\* C27: after fix_missing_run_version, for every run id configured as missing
\* for the model, in any order of the configured ids and also when two
\* consecutive versions are both configured as missing, the version that
\* referenced it keeps its number, is Archived and carries the run of the nearest
\* lower-numbered entry, so that no version of the list still references a run
\* id configured as missing.
C27_MissingRunOverride ==
  (component = "import_model" /\ mpc \in {"create", "write", "done"}
     /\ "missing_runs" \in conf.keys) =>
    /\ \A i \in 1..Len(latest_versions) :
         latest_versions[i].run_id \in Range(conf.missing_runs) =>
           /\ HasVersion(all, latest_versions[i].version)
           /\ WithVersion(all, latest_versions[i].version).current_stage = "Archived"
    /\ \A i \in 1..Len(all) : all[i].run_id \notin Range(conf.missing_runs)


\* C28: a manifest is written by _save_status only when every task submitted
\* since the previous write has produced a result, and a run id is in the ok set
\* of a written manifest only if it was in the ok set loaded at the start of the
\* call or its export task returned success before that write.
C28_DrainBarrier ==
  [][(/\ component = "export"
      /\ (pc = "save" /\ pc' = "loop") \/ (pc = "final" /\ pc' = "log"))
     => /\ \A i \in 1..Len(futures) : futures[i].st \in {"ok", "failed", "raised"}
        /\ manifest'.runs \subseteq
             _get_previous_ok_runs(start_manifest)
               \cup {r \in submitted :
                       /\ r \notin failed_now
                       /\ \A i \in 1..Len(futures) :
                            futures[i].run = r => futures[i].st = "ok"}]_vars

\* a manifest was written in the middle of the listing, after a batch with a
\* success and a failure
C28_Witness ==
  /\ component = "export"
  /\ pc = "loop" /\ futures = <<>>
  /\ starts = 1
  /\ IterHasNext(iterator)
  /\ manifest.shape = "mlflow"
  /\ manifest.runs # {} /\ manifest.failed_runs # {}


\* C29: at every moment of export_experiment the number of submitted tasks whose
\* result is not yet merged into the checkpoint sets is at most
\* save_status_interval, no task is submitted while a drain is in progress, and
\* at most `threads` tasks execute at the same time.
C29_BoundedInFlight ==
  [][component = "export" =>
       /\ Len(futures) <= save_status_interval
       /\ Len(futures') <= save_status_interval
       /\ Cardinality(Running(futures)) <= threads
       /\ Cardinality(Running(futures')) <= threads
       /\ pc = "save" => (submitted' = submitted /\ Len(futures') <= Len(futures))]_vars

\* a drain is in progress with a full batch and every worker busy
C29_Witness ==
  /\ component = "export"
  /\ pc = "save"
  /\ save_status_interval = MaxInterval
  /\ Len(futures) = save_status_interval
  /\ threads = MaxThreads
  /\ Cardinality(Running(futures)) = threads


\* C30: in every manifest _save_status writes in cursor mode, for any batch size
\* and page size, every child a resumption from the persisted last_page_token
\* will not fetch again (every child on the pages before the resume position)
\* is in the persisted completed set or in the persisted failed set.
C30_CursorInvariant ==
  (component = "export" /\ manifest.shape = "mlflow"
     /\ manifest.last_page_token # None) =>
    (1..manifest.last_page_token) \subseteq (manifest.runs \cup manifest.failed_runs)


\* C31: whenever export_experiment exhausts its input, _save_status is executed
\* once more after the last submission, whatever the number of pending tasks
\* (zero included) and after every worker has finished, so that the last
\* manifest reflects the result of every task submitted during the call.
C31_FinalCheckpoint ==
  [][(component = "export" /\ pc = "final" /\ pc' \notin {"final", "idle"})
     => /\ \A i \in 1..Len(futures) : futures[i].st \in {"ok", "failed", "raised"}
        /\ pc' = "log"
        /\ manifest'.shape = "mlflow"
        /\ (submitted \ failed_now) \subseteq manifest'.runs
        /\ {futures[i].run : i \in {k \in 1..Len(futures) : futures[k].st = "failed"}}
             \subseteq manifest'.failed_runs]_vars


\* C32: when every to-do version of a model has been created with its expected
\* number, import_model transitions every reconciled version whose
\* current_stage is not None (the versions of earlier imports and the Archived
\* fillers included) to that stage, in ascending version order, after waiting
\* for the version to be ready, and only afterwards writes import-model.json.
C32_StageReplay ==
  [][/\ ImportModelTransitions("none")
          => (mpc' = "write" /\ transition_log' = AscendingSeq(Staged(all)))
     /\ (component = "import_model" /\ import_model_json' # import_model_json)
          => transition_log = AscendingSeq(Staged(all))]_vars


\* C33: import-model.json is written only at the end of an import_model call in
\* which every to-do version was created with the expected number and every
\* stage transition succeeded; hence, absent external writes to the destination,
\* whenever import-model.json lists a version v the destination model has a
\* version numbered v.
C33_CheckpointSoundness ==
  [][component = "import_model" =>
       /\ import_model_json' # import_model_json =>
            /\ mpc = "write" /\ mpc' = "done"
            /\ versions = <<>>
            /\ LET todo == SortedByVersion(ToDo(all, previous_versions))
               IN /\ create_log = [i \in 1..Len(todo) |-> todo[i].version]
                  /\ \A i \in 1..Len(todo) : todo[i].version \in dst_model.versions
            /\ transition_log = AscendingSeq(Staged(all))
       /\ (import_model_json'.exists /\ external_writes' = 0) =>
            import_model_json'.versions \subseteq dst_model'.versions]_vars

\* a second call has added a version to a checkpoint and to the destination
C33_Witness ==
  /\ component = "import_model"
  /\ model_starts = 2 /\ mpc = "done"
  /\ previous_versions # {}
  /\ import_model_json.exists
  /\ import_model_json.versions # previous_versions
  /\ external_writes = 0


C35_MissingExperimentExclusion ==
  (component = "import_model" /\ mpc \in {"create", "write", "done"}
     /\ "missing_experiments" \in conf.keys) =>
    /\ \A i \in 1..Len(all) : all[i]._experiment_name \notin conf.missing_experiments
    /\ SelectSeq(all, LAMBDA v : v.description = 0)
         = SelectSeq(latest_versions,
                     LAMBDA v : v._experiment_name \notin conf.missing_experiments)


\* C36: during export_experiment the completed and the failed set are modified
\* only by the orchestrating thread, while it merges the task results in
\* _save_status; the worker tasks never write them and only hand back a
\* (success, run_id) result, so that under every interleaving of the tasks the
\* sets written at a checkpoint depend on the set of task results alone.
C36_SingleWriter ==
  [][component = "export" =>
       /\ (futures' # futures /\ pc' = pc) =>
            (ok_run_ids' = ok_run_ids /\ failed_run_ids' = failed_run_ids
               /\ manifest' = manifest)
       /\ (starts' = starts /\ (ok_run_ids' # ok_run_ids \/ failed_run_ids' # failed_run_ids
                                  \/ manifest' # manifest)) =>
            /\ pc \in {"save", "final"}
            /\ ok_run_ids' = ok_run_ids
                 \cup {r \in AllRuns : \E i \in 1..Len(futures) :
                                          futures[i] = [run |-> r, st |-> "ok"]}
            /\ failed_run_ids' = failed_run_ids
                 \cup {r \in AllRuns : \E i \in 1..Len(futures) :
                                          futures[i] = [run |-> r, st |-> "failed"]}
            /\ manifest'.runs = ok_run_ids'
            /\ manifest'.failed_runs = failed_run_ids']_vars

\* the task submitted second has handed back its result before the first one,
\* and neither set has been touched
C36_Witness ==
  /\ component = "export"
  /\ pc \in {"save", "final"}
  /\ Len(futures) = 2
  /\ futures[1].st = "running" /\ futures[2].st = "ok"
  /\ ok_run_ids = {} /\ failed_run_ids = {}
  /\ manifest.shape = "absent"

=============================================================================
